---- MODULE Spec2Model ----
(***************************************************************************)
(* Model of compare_source_files_streamlit.py: the pairwise comparison of  *)
(* the workbooks of a directory (perform_comparison), the retrying LLM     *)
(* client (get_comparison_from_kimi) and the parsing of its Markdown reply. *)
(*                                                                         *)
(* Text is a sequence of one-character strings.  A Chinese character of    *)
(* the source is written as one token holding its pinyin ("zong" for the   *)
(* first character of the suffix of line 266), so lengths are the source's. *)
(***************************************************************************)
EXTENDS Integers, Sequences, FiniteSets, TLC

VARIABLES
    dir,                \* the entries of input_dir (environment)
    pc,                 \* position in perform_comparison
    excel_files,        \* line 193
    file_pairs,         \* line 200
    i,                  \* index of the pair being processed (line 214), from 1
    overview_data,      \* line 213
    overall_file,       \* the top-level report: "none", "open", "written",
                        \* "not created", "not written"
    retval,             \* "running", "None" or "path" (lines 197, 335, 340)
    pair_files,         \* per-pair report files created so far (their pairs)
    sheets1,            \* line 221
    sheets2,            \* line 222
    common_sheets,      \* line 228
    k,                  \* index of the sheet being processed (line 255), from 1
    pair_writer,        \* the to_excel calls made on pair_writer, in order
    requested,          \* sheets of this pair for which an LLM request was sent
    attempt,            \* loop variable of line 76
    requests,           \* requests sent by the current call of the client
    sleeps,             \* time.sleep calls made by the current call
    log,                \* one entry per attempt of the current call (lines 87-96)
    comparison_result   \* line 273: unset, None or the reply text; a local of
                        \* perform_comparison, kept until the next call

vars == <<dir, pc, excel_files, file_pairs, i, overview_data, overall_file,
          retval, pair_files, sheets1, sheets2, common_sheets, k, pair_writer,
          requested, attempt, requests, sleeps, log, comparison_result>>

----------------------------------------------------------------------------
(* Bounds of the model *)

MaxFiles == 3       \* entries in the input directory
MaxLines == 4       \* lines of an LLM reply drawn for the parser

----------------------------------------------------------------------------
(* Python's str and list primitives, on sequences of characters *)

None == <<"None">>

WS == {" ", "\n"}

RECURSIVE LStrip(_, _)
LStrip(s, cs) ==
    IF s # <<>> /\ Head(s) \in cs THEN LStrip(Tail(s), cs) ELSE s

RECURSIVE RStrip(_, _)
RStrip(s, cs) ==
    IF s # <<>> /\ s[Len(s)] \in cs
    THEN RStrip(SubSeq(s, 1, Len(s) - 1), cs) ELSE s

Strip(s, cs) == RStrip(LStrip(s, cs), cs)

RECURSIVE Split(_, _)
Split(s, sep) ==
    IF \E j \in 1..Len(s) : s[j] = sep
    THEN LET j == CHOOSE j \in 1..Len(s) :
                      s[j] = sep /\ \A m \in 1..(j - 1) : s[m] # sep
         IN  <<SubSeq(s, 1, j - 1)>> \o Split(SubSeq(s, j + 1, Len(s)), sep)
    ELSE <<s>>

Contains(s, sub) ==
    \E j \in 1..(Len(s) - Len(sub) + 1) : SubSeq(s, j, j + Len(sub) - 1) = sub

StartsWith(s, pre) == Len(s) >= Len(pre) /\ SubSeq(s, 1, Len(pre)) = pre

EndsWith(s, suf) ==
    Len(s) >= Len(suf) /\ SubSeq(s, Len(s) - Len(suf) + 1, Len(s)) = suf

Range(s) == {s[j] : j \in 1..Len(s)}

HasDuplicates(s) == \E a, b \in 1..Len(s) : a # b /\ s[a] = s[b]

RECURSIVE Join(_, _)
Join(ls, sep) ==
    IF ls = <<>> THEN <<>>
    ELSE IF Len(ls) = 1 THEN ls[1]
    ELSE ls[1] \o <<sep>> \o Join(Tail(ls), sep)

----------------------------------------------------------------------------
(* The input directory and its workbooks: the fixture the runs draw from *)

DotXlsx == <<".", "x", "l", "s", "x">>

FA == <<"a">> \o DotXlsx
FB == <<"b">> \o DotXlsx
FC == <<"c">> \o DotXlsx
FD == <<"d">> \o DotXlsx
FE == <<"e">> \o DotXlsx
FF == <<"f">> \o DotXlsx
FLock == <<"~", "$", "a">> \o DotXlsx       \* an Excel lock file
FXls == <<"a", ".", "x", "l", "s">>          \* another extension
FHidden == <<".", "h">> \o DotXlsx          \* a dot file

Entries == {FA, FB, FC, FD, FE, FF, FLock, FXls, FHidden}

\* code points of the characters that occur in file and sheet names
Ord(c) ==
    CASE c = "$" -> 36  [] c = "." -> 46  [] c = "a" -> 97  [] c = "b" -> 98
      [] c = "c" -> 99  [] c = "d" -> 100 [] c = "e" -> 101 [] c = "f" -> 102
      [] c = "h" -> 104 [] c = "l" -> 108 [] c = "s" -> 115 [] c = "t" -> 116
      [] c = "u" -> 117 [] c = "x" -> 120 [] c = "y" -> 121 [] c = "~" -> 126

\* Python's < on str
RECURSIVE StrLess(_, _)
StrLess(a, b) ==
    IF b = <<>> THEN FALSE
    ELSE IF a = <<>> THEN TRUE
    ELSE IF Head(a) # Head(b) THEN Ord(Head(a)) < Ord(Head(b))
    ELSE StrLess(Tail(a), Tail(b))

\* sorted(list(S)) for a set of str
RECURSIVE Sorted(_)
Sorted(S) ==
    IF S = {} THEN <<>>
    ELSE LET m == CHOOSE m \in S : \A o \in S \ {m} : StrLess(m, o)
         IN  <<m>> \o Sorted(S \ {m})

TruncLen == 25

A25 == [j \in 1..TruncLen |-> "a"]
SX == A25 \o <<"x">>        \* two sheet names of 26 characters that share
SY == A25 \o <<"y">>        \* their first 25
SS == <<"s">>
ST == <<"t">>
SU == <<"u">>

T1 == <<<<"1">>>>           \* tables (DataFrames read by xls.parse)
T2 == <<<<"2">>>>
Corrupt == <<<<"corrupt">>>> \* marks a sheet whose parse raises

\* pd.ExcelFile(path): whether it can be read, and the table of each sheet
Workbook(f) ==
    CASE f = FA -> [readable |-> TRUE,  tables |-> (SX :> T1 @@ SY :> T1 @@ SS :> T1)]
      [] f = FB -> [readable |-> TRUE,  tables |-> (SX :> T1 @@ SY :> T1 @@ SS :> T2)]
      [] f = FC -> [readable |-> TRUE,  tables |-> (SX :> T2 @@ SY :> T2 @@ ST :> T1)]
      [] f = FD -> [readable |-> FALSE, tables |-> (SS :> T1)]
      [] f = FE -> [readable |-> TRUE,  tables |-> (SU :> T1)]
      [] f = FF -> [readable |-> TRUE,  tables |-> (SS :> Corrupt @@ ST :> T2)]
      [] OTHER  -> [readable |-> FALSE, tables |-> (SS :> T1)]

sheet_names(f) == DOMAIN Workbook(f).tables

ParseRaises(f, sheet_name) == Workbook(f).tables[sheet_name] = Corrupt

\* xls.parse(sheet_name)
parse(f, sheet_name) == Workbook(f).tables[sheet_name]

\* a faulty variant of equals: no two tables are ever found equal
equals_never(df1, df2) == FALSE

\* df1.equals(df2)
equals(df1, df2) == df1 = df2

----------------------------------------------------------------------------
(* Enumeration of the files and of the pairs (lines 193-200) *)

\* glob.glob(os.path.join(input_dir, '*.xlsx')): the names the pattern matches
\* ('*' does not match a leading dot); the order of the result is the
\* directory listing's, which is arbitrary
GlobMatches(d) == {e \in d : EndsWith(e, DotXlsx) /\ Head(e) # "."}

Orderings(S) ==
    {s \in [1..Cardinality(S) -> S] : \A a, b \in 1..Cardinality(S) : a # b => s[a] # s[b]}

\* os.path.basename(f).startswith('~$')
IsLockFile(f) == StartsWith(f, <<"~", "$">>)

NotLock(f) == ~IsLockFile(f)

\* a faulty variant of ExcelFiles: the lock files are kept
ExcelFiles_unfiltered(listing) == listing

ExcelFiles(listing) == SelectSeq(listing, NotLock)

MinFiles == 2

\* a faulty variant of combinations: each file is also paired with itself
RECURSIVE combinations_with_self(_)
combinations_with_self(files) ==
    IF files = <<>> THEN <<>>
    ELSE [j \in 1..Len(files) |-> <<files[1], files[j]>>]
         \o combinations_with_self(Tail(files))

\* list(itertools.combinations(files, 2))
RECURSIVE combinations(_)
combinations(files) ==
    IF Len(files) < 2 THEN <<>>
    ELSE [j \in 1..(Len(files) - 1) |-> <<files[1], files[j + 1]>>]
         \o combinations(Tail(files))

----------------------------------------------------------------------------
(* The sheets of a per-pair report (lines 246-318) *)

OVERVIEW == <<"gai", "lan">>                          \* line 251
SUMMARY  == <<"_", "zong", "jie">>                    \* line 266
DIFF     == <<"_", "cha", "yi">>                      \* line 267
COMPARE  == <<"_", "cha", "yi", "dui", "bi">>         \* line 300
RAW      == <<"_", "yuan", "shi", "fan", "hui">>      \* line 314
ERROR    == <<"_", "cuo", "wu">>                      \* line 318

\* sheet_name[:25]
Truncate(sheet_name) ==
    SubSeq(sheet_name, 1, IF Len(sheet_name) < TruncLen THEN Len(sheet_name) ELSE TruncLen)

\* f"{sheet_name[:25]}<suffix>"
OutName(sheet_name, suffix) == Truncate(sheet_name) \o suffix

\* df.to_excel(pair_writer, sheet_name=name): the worksheet written, the common
\* sheet the frame is about, and the frame
ToExcel(name, from, df) == [sheet_name |-> name, from |-> from, df |-> df]

DataFrame(columns, rows) == [columns |-> columns, rows |-> rows]

\* lines 246-251
OverviewPairSheet(s1, s2) ==
    ToExcel(OVERVIEW, <<>>,
            DataFrame(<<<<"status">>, <<"sheet names">>>>,
                      << <<<<"common">>, Join(Sorted(s1 \cap s2), ",")>>,
                         <<<<"only in file 1">>, Join(Sorted(s1 \ s2), ",")>>,
                         <<<<"only in file 2">>, Join(Sorted(s2 \ s1), ",")>> >>))

\* lines 262-267
summary_text(sheet_name) == <<"identical: ">> \o sheet_name

IdenticalSheets(sheet_name) ==
    << ToExcel(OutName(sheet_name, SUMMARY), sheet_name,
               DataFrame(<<<<"summary">>>>, <<<<summary_text(sheet_name)>>>>)),
       ToExcel(OutName(sheet_name, DIFF), sheet_name,
               DataFrame(<<<<"status">>, <<"note">>>>,
                         <<<<<<"same">>, summary_text(sheet_name)>>>>)) >>

\* lines 317-318
ErrorSheet(sheet_name) ==
    ToExcel(OutName(sheet_name, ERROR), sheet_name,
            DataFrame(<<<<"error">>>>, <<<<<<"no result: ">> \o sheet_name>>>>))

\* lines 313-314
RawSheet(sheet_name, result) ==
    ToExcel(OutName(sheet_name, RAW), sheet_name,
            DataFrame(<<<<"raw reply">>>>, <<<<result>>>>))

----------------------------------------------------------------------------
(* Parsing of the reply (lines 279-298) *)

Pipe == <<"|">>
Dashes == <<"-", "-", "-">>
DiffCol == <<"cha", "yi", "shuo", "ming">>      \* the column of line 296
NoDiff == <<"wu cha yi">>                        \* the cell of line 295
NoDiffNote == <<"no significant difference">>   \* the cell of line 296
NoteCol == <<"note">>                           \* the columns of line 298
RawCol == <<"raw output">>

\* [p.strip() for p in line.strip().strip('|').split('|')]
Cells(line) ==
    LET parts == Split(Strip(Strip(line, WS), {"|"}), "|")
    IN  [j \in 1..Len(parts) |-> Strip(parts[j], WS)]

\* comparison_result.strip().strip().split('\n')
Lines(result) == Split(Strip(Strip(result, WS), WS), "\n")

\* a faulty variant of RowAccepted: shorter rows are accepted too
RowAccepted_atmost(parts, header) == Len(parts) <= Len(header)

\* line 288
RowAccepted(parts, header) == Len(parts) = Len(header)

\* lines 285-289
RECURSIVE DataRows(_, _)
DataRows(lines, header) ==
    IF lines = <<>> THEN <<>>
    ELSE LET parts == Cells(Head(lines))
         IN  (IF RowAccepted(parts, header) THEN <<parts>> ELSE <<>>)
             \o DataRows(Tail(lines), header)

\* line 282
IsTable(lines) ==
    Len(lines) > 1 /\ Contains(lines[1], Pipe) /\ Contains(lines[2], Dashes)

\* a faulty variant of IsHeaderOnly: any non-empty first line is a header
IsHeaderOnly_nonempty(lines) == lines[1] # <<>>

\* line 291
IsHeaderOnly(lines) == Contains(lines[1], Pipe)

\* lines 292-296: the frame has no row, so one row of NoDiff cells is set and
\* the DiffCol column is set (added when the header lacks it)
Placeholder(header) ==
    LET columns == IF DiffCol \in Range(header) THEN header
                   ELSE Append(header, DiffCol)
    IN  DataFrame(columns,
                  <<[j \in 1..Len(columns) |->
                        IF columns[j] = DiffCol THEN NoDiffNote ELSE NoDiff]>>)

\* line 298
ParseFailure(sheet_name, table_str) ==
    DataFrame(<<NoteCol, RawCol>>,
              <<<<<<"no difference or bad format: ">> \o sheet_name, table_str>>>>)

\* lines 279-298: details_df
Details(sheet_name, result) ==
    LET table_str == Strip(result, WS)
        lines == Lines(result)
    IN  IF IsTable(lines)
        THEN DataFrame(Cells(lines[1]),
                       DataRows(SubSeq(lines, 3, Len(lines)), Cells(lines[1])))
        ELSE IF IsHeaderOnly(lines)
        THEN Placeholder(Cells(lines[1]))
        ELSE ParseFailure(sheet_name, table_str)

\* whether lines 304-307 raise: details_df[col] is a frame, not a series, when
\* the label col occurs twice
WidthRaises(df) == HasDuplicates(df.columns)

\* whether lines 293-296 may raise before anything is written: setting a row
\* or a column of a frame with repeated labels
PlaceholderMayRaise(result) ==
    LET lines == Lines(result)
    IN  /\ ~IsTable(lines)
        /\ IsHeaderOnly(lines)
        /\ HasDuplicates(Cells(lines[1]))

\* `if comparison_result:` (line 277)
Truthy(result) == result # None /\ result # <<>>

\* lines 277-318: the to_excel calls made for one compared sheet; early says
\* that parsing raised before line 300
SheetWrites(sheet_name, result, early) ==
    IF ~Truthy(result) THEN <<ErrorSheet(sheet_name)>>
    ELSE IF early THEN <<RawSheet(sheet_name, result)>>
    ELSE LET details_df == Details(sheet_name, result)
         IN  <<ToExcel(OutName(sheet_name, COMPARE), sheet_name, details_df)>>
             \o (IF WidthRaises(details_df)
                 THEN <<RawSheet(sheet_name, result)>> ELSE <<>>)

----------------------------------------------------------------------------
(* The LLM provider and the client's retry policy (lines 21, 76-103) *)

retries == 3
delay == 5

Unset == <<"unset">>

HEADER_LINE == <<"|", "a", "|", "b", "|">>
SEPARATOR_LINE == <<"|", "-", "-", "-", "|", "-", "-", "-", "|">>
ROW_LINE == <<"|", " ", "c", " ", "|", "d", "|">>
DUP_HEADER_LINE == <<"|", "a", "|", "a", "|">>

\* the replies the provider gives during a run
Replies ==
    { Join(<<HEADER_LINE, SEPARATOR_LINE, ROW_LINE>>, "\n"),   \* a table
      HEADER_LINE,                                             \* a header alone
      <<"x">>,                                                 \* no table
      DUP_HEADER_LINE,                                         \* a repeated column
      <<>> }                                                   \* empty content

\* what one dashscope.Generation.call can do: answer with status OK and a
\* content, answer with another status, or raise
ProviderOutcomes ==
    [status : {"OK"}, content : Replies]
    \cup {[status |-> "ERR", content |-> None], [status |-> "EXC", content |-> None]}

\* a faulty variant of SleepsAfter: a sleep follows the last attempt too
SleepsAfter_every(n) == n < retries

\* line 98
SleepsAfter(n) == n < retries - 1

----------------------------------------------------------------------------
(* perform_comparison (lines 189-340) *)

READ_ERROR == "read error"                  \* line 225
NO_COMMON_SHEETS == "no common sheets"      \* line 232
COMPLETED == "completed"                    \* line 321
PROCESSING_ERROR == "processing error"      \* line 326

OverviewEntry(file1_name, file2_name, status) ==
    [file1 |-> file1_name, file2 |-> file2_name, status |-> status]

\* line 241
PairFileName(file1_name, file2_name) ==
    <<"Comparison_">> \o file1_name \o <<"_vs_">> \o file2_name \o DotXlsx

Init ==
    /\ dir \in {d \in SUBSET Entries : Cardinality(d) <= MaxFiles}
    /\ pc = "start"
    /\ excel_files = <<>>
    /\ file_pairs = <<>>
    /\ i = 1
    /\ overview_data = <<>>
    /\ overall_file = "none"
    /\ retval = "running"
    /\ pair_files = {}
    /\ sheets1 = {}
    /\ sheets2 = {}
    /\ common_sheets = <<>>
    /\ k = 1
    /\ pair_writer = <<>>
    /\ requested = {}
    /\ attempt = 0
    /\ requests = 0
    /\ sleeps = <<>>
    /\ log = <<>>
    /\ comparison_result = Unset

pairLocals == <<sheets1, sheets2, common_sheets, k, pair_writer, requested>>
kimiLocals == <<attempt, requests, sleeps, log>>

\* the locals of a pair once its iteration has ended
PairEnds ==
    /\ sheets1' = {}
    /\ sheets2' = {}
    /\ common_sheets' = <<>>
    /\ k' = 1
    /\ pair_writer' = <<>>
    /\ requested' = {}

\* the locals of a call of get_comparison_from_kimi once it has returned
KimiEnds ==
    /\ attempt' = 0
    /\ requests' = 0
    /\ sleeps' = <<>>
    /\ log' = <<>>

\* lines 193-211: list the files, return None when fewer than 2, else build
\* the pairs and open the top-level report (which may fail: line 337)
Start ==
    /\ pc = "start"
    /\ \E listing \in Orderings(GlobMatches(dir)) :
        LET files == ExcelFiles(listing)
        IN  /\ excel_files' = files
            /\ IF Len(files) < MinFiles
               THEN /\ retval' = "None"
                    /\ pc' = "done"
                    /\ UNCHANGED <<file_pairs, overall_file>>
               ELSE /\ file_pairs' = combinations(files)
                    /\ \E opened \in BOOLEAN :
                        IF opened
                        THEN /\ overall_file' = "open"
                             /\ pc' = "pair"
                             /\ UNCHANGED retval
                        ELSE /\ overall_file' = "not created"
                             /\ retval' = "None"
                             /\ pc' = "done"
    /\ UNCHANGED <<dir, i, overview_data, pair_files, pairLocals, kimiLocals,
                   comparison_result>>

\* a faulty variant of OnReadError: the error leaves the loop and the run
\* returns None through the handler of line 337
OnReadError_abort(file1_name, file2_name) ==
    /\ retval' = "None"
    /\ pc' = "done"
    /\ UNCHANGED <<overview_data, i, overall_file>>

\* lines 225-226: the read error is recorded and the loop continues
OnReadError(file1_name, file2_name) ==
    /\ overview_data' = Append(overview_data,
                               OverviewEntry(file1_name, file2_name, READ_ERROR))
    /\ i' = i + 1
    /\ pc' = "pair"
    /\ UNCHANGED <<retval, overall_file>>

\* lines 214-252: read the two workbooks of the pair; without a common sheet
\* the pair is over, else its report is opened and the overview sheet written
BeginPair ==
    /\ pc = "pair"
    /\ i <= Len(file_pairs)
    /\ LET file1_name == file_pairs[i][1]
           file2_name == file_pairs[i][2]
       IN  IF ~Workbook(file1_name).readable \/ ~Workbook(file2_name).readable
           THEN /\ OnReadError(file1_name, file2_name)
                /\ UNCHANGED <<pair_files, pairLocals>>
           ELSE LET s1 == sheet_names(file1_name)
                    s2 == sheet_names(file2_name)
                    common == Sorted(s1 \cap s2)
                IN  IF common = <<>>
                    THEN /\ overview_data' =
                              Append(overview_data,
                                     OverviewEntry(file1_name, file2_name, NO_COMMON_SHEETS))
                         /\ i' = i + 1
                         /\ UNCHANGED <<pc, pair_files, pairLocals, retval, overall_file>>
                    ELSE /\ sheets1' = s1
                         /\ sheets2' = s2
                         /\ common_sheets' = common
                         /\ pair_files' = pair_files \cup {PairFileName(file1_name, file2_name)}
                         /\ pair_writer' = <<OverviewPairSheet(s1, s2)>>
                         /\ k' = 1
                         /\ pc' = "sheet"
                         /\ UNCHANGED <<i, overview_data, requested, retval, overall_file>>
    /\ UNCHANGED <<dir, excel_files, file_pairs, kimiLocals, comparison_result>>

\* lines 255-275: one common sheet.  A parse that raises ends the pair with a
\* processing error (lines 324-326); equal tables get the two "identical"
\* sheets and no request; else the client is called
CompareSheet ==
    /\ pc = "sheet"
    /\ k <= Len(common_sheets)
    /\ LET file1_name == file_pairs[i][1]
           file2_name == file_pairs[i][2]
           sheet_name == common_sheets[k]
       IN  IF ParseRaises(file1_name, sheet_name) \/ ParseRaises(file2_name, sheet_name)
           THEN /\ overview_data' =
                     Append(overview_data,
                            OverviewEntry(file1_name, file2_name, PROCESSING_ERROR))
                /\ i' = i + 1
                /\ pc' = "pair"
                /\ PairEnds
                /\ UNCHANGED kimiLocals
           ELSE IF equals(parse(file1_name, sheet_name), parse(file2_name, sheet_name))
           THEN /\ pair_writer' = pair_writer \o IdenticalSheets(sheet_name)
                /\ k' = k + 1
                /\ UNCHANGED <<pc, i, overview_data, sheets1, sheets2, common_sheets,
                               requested, kimiLocals>>
           ELSE /\ pc' = "kimi"
                /\ UNCHANGED <<i, overview_data, pairLocals, kimiLocals>>
    /\ UNCHANGED <<dir, excel_files, file_pairs, overall_file, retval, pair_files,
                   comparison_result>>

\* lines 76-103: one iteration of the retry loop: the request, its outcome,
\* and the sleep that follows a failure unless it was the last attempt
KimiAttempt ==
    /\ pc = "kimi"
    /\ attempt < retries
    /\ \E outcome \in ProviderOutcomes :
        /\ requests' = requests + 1
        /\ requested' = requested \cup {common_sheets[k]}
        /\ log' = Append(log, outcome)
        /\ IF outcome.status = "OK"
           THEN /\ comparison_result' = outcome.content
                /\ pc' = "save"
                /\ UNCHANGED <<attempt, sleeps>>
           ELSE /\ attempt' = attempt + 1
                /\ sleeps' = IF SleepsAfter(attempt) THEN Append(sleeps, delay) ELSE sleeps
                /\ IF attempt + 1 < retries
                   THEN UNCHANGED <<pc, comparison_result>>
                   ELSE /\ comparison_result' = None
                        /\ pc' = "save"
    /\ UNCHANGED <<dir, excel_files, file_pairs, i, overview_data, overall_file,
                   retval, pair_files, sheets1, sheets2, common_sheets, k, pair_writer>>

\* lines 277-318: the sheets written for the reply
SaveSheet ==
    /\ pc = "save"
    /\ \E early \in (IF Truthy(comparison_result) /\ PlaceholderMayRaise(comparison_result)
                     THEN BOOLEAN ELSE {FALSE}) :
        pair_writer' = pair_writer \o SheetWrites(common_sheets[k], comparison_result, early)
    /\ k' = k + 1
    /\ pc' = "sheet"
    /\ KimiEnds
    /\ UNCHANGED <<dir, excel_files, file_pairs, i, overview_data, overall_file,
                   retval, pair_files, sheets1, sheets2, common_sheets, requested,
                   comparison_result>>

\* lines 320-322: the pair's report is closed and the pair recorded
ClosePair ==
    /\ pc = "sheet"
    /\ k > Len(common_sheets)
    /\ overview_data' =
          Append(overview_data,
                 OverviewEntry(file_pairs[i][1], file_pairs[i][2], COMPLETED))
    /\ i' = i + 1
    /\ pc' = "pair"
    /\ PairEnds
    /\ UNCHANGED <<dir, excel_files, file_pairs, overall_file, retval, pair_files,
                   kimiLocals, comparison_result>>

\* lines 328-340: the overview sheet is written and the report closed; a
\* failure of either gives None
Finish ==
    /\ pc = "pair"
    /\ i > Len(file_pairs)
    /\ \E written \in BOOLEAN :
        IF written
        THEN overall_file' = "written" /\ retval' = "path"
        ELSE overall_file' = "not written" /\ retval' = "None"
    /\ pc' = "done"
    /\ UNCHANGED <<dir, excel_files, file_pairs, i, overview_data, pair_files,
                   pairLocals, kimiLocals, comparison_result>>

Next ==
    \/ Start
    \/ BeginPair
    \/ CompareSheet
    \/ KimiAttempt
    \/ SaveSheet
    \/ ClosePair
    \/ Finish

Spec == Init /\ [][Next]_vars

----------------------------------------------------------------------------
(* The parser on its own: one compared sheet (sheet t of c.xlsx and f.xlsx) *)
(* whose reply is drawn from the texts of up to MaxLines lines              *)

SHORT_ROW_LINE == <<"|", "c", "|">>
LONG_ROW_LINE == <<"c", "|", "d", "|", "e">>
TEXT_LINE == <<"x">>
EMPTY_LINE == <<>>
SHORT_SEPARATOR_LINE == <<"|", "-", "|", "-", "|">>

ReplyLines ==
    {HEADER_LINE, SEPARATOR_LINE, ROW_LINE, SHORT_ROW_LINE, LONG_ROW_LINE,
     TEXT_LINE, EMPTY_LINE, SHORT_SEPARATOR_LINE}

ParserReplies ==
    {lead \o Join(ls, "\n") \o trail :
        ls \in UNION {[1..n -> ReplyLines] : n \in 1..MaxLines},
        lead \in {<<>>, <<" ">>},
        trail \in {<<>>, <<"\n">>}}

InitParse ==
    /\ dir = {FC, FF}
    /\ pc = "save"
    /\ excel_files = <<FC, FF>>
    /\ file_pairs = combinations(<<FC, FF>>)
    /\ i = 1
    /\ overview_data = <<>>
    /\ overall_file = "open"
    /\ retval = "running"
    /\ pair_files = {PairFileName(FC, FF)}
    /\ sheets1 = sheet_names(FC)
    /\ sheets2 = sheet_names(FF)
    /\ common_sheets = <<ST>>
    /\ k = 1
    /\ pair_writer = <<OverviewPairSheet(sheet_names(FC), sheet_names(FF))>>
    /\ requested = {ST}
    /\ attempt = 0
    /\ requests = 1
    /\ sleeps = <<>>
    /\ comparison_result \in ParserReplies
    /\ log = <<[status |-> "OK", content |-> comparison_result]>>

NextParse == SaveSheet

SpecParse == InitParse /\ [][NextParse]_vars

----------------------------------------------------------------------------
(* Properties *)

\* the files the enumeration of line 193 yields, whatever the listing order
Eligible == {e \in GlobMatches(dir) : ~IsLockFile(e)}

ReportProduced == pc = "done" /\ overall_file = "written"

OverviewPairs == [j \in 1..Len(overview_data) |->
                    {overview_data[j].file1, overview_data[j].file2}]

\* C1: when the top-level report is produced for N >= 2 eligible files, the
\* overview holds exactly one row per unordered pair of distinct files:
\* N(N-1)/2 rows, no pair twice, no file paired with itself.
C1_OneEntryPerPair ==
    (ReportProduced /\ Cardinality(Eligible) >= 2) =>
        LET N == Cardinality(Eligible)
        IN  /\ Len(overview_data) * 2 = N * (N - 1)
            /\ \A a, b \in 1..Len(overview_data) :
                  a # b => OverviewPairs[a] # OverviewPairs[b]
            /\ \A a \in 1..Len(overview_data) :
                  /\ overview_data[a].file1 # overview_data[a].file2
                  /\ OverviewPairs[a] \subseteq Eligible
            /\ \A f, g \in Eligible :
                  f # g => \E a \in 1..Len(overview_data) : OverviewPairs[a] = {f, g}

\* a report over three files whose pairs took different paths
C1_Witness ==
    /\ ReportProduced
    /\ Cardinality(Eligible) = 3
    /\ Len(overview_data) = 3
    /\ Cardinality({overview_data[j].status : j \in 1..Len(overview_data)}) >= 2

InCall == pc \in {"kimi", "save"}

FailedAttempts == Cardinality({j \in 1..Len(log) : log[j].status # "OK"})

\* C2: during and at the end of one call of get_comparison_from_kimi: at most
\* 3 requests are sent, one per logged attempt; only the last attempt can be
\* a success, its text is the value returned and the call is over; None is
\* returned only after three failed attempts; and each failed attempt except
\* the third is followed by one sleep of 5 seconds.
C2_RetryPolicy ==
    InCall =>
        /\ requests <= 3
        /\ requests = Len(log)
        /\ \A j \in 1..(Len(log) - 1) : log[j].status # "OK"
        /\ (Len(log) > 0 /\ log[Len(log)].status = "OK") =>
              (pc = "save" /\ comparison_result = log[Len(log)].content)
        /\ pc = "save" =>
              \/ (Len(log) > 0 /\ log[Len(log)].status = "OK")
              \/ (comparison_result = None /\ FailedAttempts = 3 /\ requests = 3)
        /\ (pc = "kimi" \/ comparison_result = None) => FailedAttempts = Len(log)
        /\ sleeps = [j \in 1..(IF FailedAttempts = 3 THEN 2 ELSE FailedAttempts) |-> 5]

\* sustained failure: three requests, two sleeps, None
C2_Witness ==
    /\ pc = "save"
    /\ comparison_result = None
    /\ requests = 3
    /\ sleeps = <<5, 5>>

InPair == pc \in {"sheet", "kimi", "save"}

File1 == file_pairs[i][1]
File2 == file_pairs[i][2]

TablesEqual(sheet_name) ==
    Workbook(File1).tables[sheet_name] = Workbook(File2).tables[sheet_name]

\* the common sheets of the current pair whose comparison is over
Processed == {common_sheets[m] : m \in 1..(k - 1)}

WritesOf(sheet_name) ==
    {pair_writer[m] : m \in {n \in 1..Len(pair_writer) : pair_writer[n].from = sheet_name}}

\* C3: within a pair, a request is sent only for common sheets whose tables
\* differ; a compared sheet whose tables are equal has caused no request and
\* has the "identical" note written for it.
C3_IdenticalShortCircuit ==
    InPair =>
        /\ \A s \in requested : ~TablesEqual(s)
        /\ \A s \in Processed :
              TablesEqual(s) =>
                 /\ s \notin requested
                 /\ \E w \in WritesOf(s) :
                       /\ w.sheet_name = Truncate(s) \o <<"_", "cha", "yi">>
                       /\ w.df.rows = <<<<<<"same">>, <<"identical: ">> \o s>>>>
                 /\ \A w \in WritesOf(s) :
                       w.sheet_name \in {Truncate(s) \o <<"_", "cha", "yi">>,
                                         Truncate(s) \o <<"_", "zong", "jie">>}

\* a pair with an identical sheet behind it and a request for another sheet
C3_Witness ==
    /\ InPair
    /\ \E s \in Processed : TablesEqual(s)
    /\ requested # {}

\* what the workbooks of a pair decide about it
PairFate(pair) ==
    LET w1 == Workbook(pair[1])
        w2 == Workbook(pair[2])
        common == DOMAIN w1.tables \cap DOMAIN w2.tables
    IN  IF ~w1.readable \/ ~w2.readable THEN "read error"
        ELSE IF common = {} THEN "no common sheets"
        ELSE IF \E s \in common : Corrupt \in {w1.tables[s], w2.tables[s]}
        THEN "processing error"
        ELSE "completed"

\* C4: a failure of a pair or of a sheet is recorded and the run goes on: the
\* j-th overview row is the j-th pair with the status its failure (or success)
\* gives; every compared sheet has data written for it, an exhausted client
\* included; the run returns None only for a run-level failure; and once the
\* top-level report is open the run ends with one row per pair.
C4_FailuresAreLocal ==
    /\ Len(overview_data) <= Len(file_pairs)
    /\ \A j \in 1..Len(overview_data) :
          overview_data[j] = [file1 |-> file_pairs[j][1], file2 |-> file_pairs[j][2],
                              status |-> PairFate(file_pairs[j])]
    /\ pc \in {"pair", "sheet", "kimi", "save"} => overall_file = "open"
    /\ InPair => Len(overview_data) = i - 1
    /\ InPair => \A s \in Processed : WritesOf(s) # {}
    /\ (pc = "sheet" /\ k > 1 /\ common_sheets[k - 1] \in requested
           /\ comparison_result = None) =>
          \E w \in WritesOf(common_sheets[k - 1]) :
              w.sheet_name = Truncate(common_sheets[k - 1]) \o <<"_", "cuo", "wu">>
    /\ pc = "done" =>
          \/ Cardinality(Eligible) < 2 /\ retval = "None"
          \/ overall_file = "not created" /\ retval = "None"
          \/ /\ overall_file \in {"written", "not written"}
             /\ (overall_file = "written") = (retval = "path")
             /\ Len(overview_data) = Len(file_pairs)

\* a report in which a failed pair is followed by a completed one
C4_Witness ==
    /\ ReportProduced
    /\ retval = "path"
    /\ \E a, b \in 1..Len(overview_data) :
          /\ a < b
          /\ overview_data[a].status \in {"read error", "processing error",
                                           "no common sheets"}
          /\ overview_data[b].status = "completed"
    /\ \E a \in 1..Len(overview_data) : overview_data[a].status = "processing error"

\* the eligible files as the spec words them: workbook extension, no lock prefix
EligibleByName ==
    {e \in dir : EndsWith(e, <<".", "x", "l", "s", "x">>) /\ ~StartsWith(e, <<"~", "$">>)}

\* C5: with fewer than 2 eligible files the run does nothing but return None:
\* no top-level report, no per-pair report, no request.
C5_FewerThanTwoFiles ==
    Cardinality(EligibleByName) < 2 =>
        /\ pc \in {"start", "done"}
        /\ pc = "done" => retval = "None"
        /\ overall_file = "none"
        /\ pair_files = {}
        /\ pair_writer = <<>>
        /\ overview_data = <<>>
        /\ requests = 0
        /\ requested = {}
        /\ comparison_result = Unset

\* one eligible file beside a lock file: the run has returned None
C5_Witness ==
    /\ pc = "done"
    /\ retval = "None"
    /\ Cardinality(EligibleByName) = 1
    /\ \E e \in dir : StartsWith(e, <<"~", "$">>)

\* the state right after the reply for a sheet has been parsed and saved
Saved == pc = "sheet" /\ k > 1 /\ common_sheets[k - 1] \in requested

SavedSheet == common_sheets[k - 1]

\* the frames written to the sheet's "_cha yi dui bi" worksheet
SavedDetails ==
    {w.df : w \in {x \in WritesOf(SavedSheet) :
                      x.sheet_name = Truncate(SavedSheet) \o <<"_", "cha", "yi", "dui", "bi">>}}

NonEmptyReply == comparison_result # None /\ comparison_result # <<>>

\* the lines of the trimmed reply
ReplyText == Strip(comparison_result, {" ", "\n"})
ReplyLinesOf == Split(ReplyText, "\n")

HasPipe(line) == \E j \in 1..Len(line) : line[j] = "|"
HasDashes(line) == \E j \in 1..(Len(line) - 2) : SubSeq(line, j, j + 2) = <<"-", "-", "-">>

\* the indices of the lines from the third on with as many cells as the header
AcceptedLines ==
    {j \in 3..Len(ReplyLinesOf) : Len(Cells(ReplyLinesOf[j])) = Len(Cells(ReplyLinesOf[1]))}

\* the n-th accepted line, in the reply's order
NthAccepted(n) ==
    CHOOSE j \in AcceptedLines : Cardinality({m \in AcceptedLines : m < j}) = n - 1

\* C6: for a reply whose first line has a pipe and whose second line has the
\* separator marker "---", the table saved has the header's cells as columns
\* and as rows exactly the cells of the lines from the third on whose cell
\* count is the header's, in the reply's order.
C6_RowsWithHeaderCellCount ==
    (Saved /\ NonEmptyReply /\ Len(ReplyLinesOf) >= 2
       /\ HasPipe(ReplyLinesOf[1]) /\ HasDashes(ReplyLinesOf[2])) =>
        /\ SavedDetails # {}
        /\ \A df \in SavedDetails :
              /\ df.columns = Cells(ReplyLinesOf[1])
              /\ Len(df.rows) = Cardinality(AcceptedLines)
              /\ \A n \in 1..Len(df.rows) : df.rows[n] = Cells(ReplyLinesOf[NthAccepted(n)])

\* a table of four lines of which one data line is kept and one dropped
C6_Witness ==
    /\ Saved /\ NonEmptyReply
    /\ Len(ReplyLinesOf) = 4
    /\ HasPipe(ReplyLinesOf[1]) /\ HasDashes(ReplyLinesOf[2])
    /\ Cardinality(AcceptedLines) = 1
    /\ \E df \in SavedDetails : Len(df.rows) = 1

\* a frame that reports a parse failure and carries text
IsParseFailure(df, text) ==
    /\ df.columns = <<<<"note">>, <<"raw output">>>>
    /\ Len(df.rows) = 1
    /\ df.rows[1][2] = text

\* C7 as stated: a non-empty reply whose trimmed text has fewer than 2 lines,
\* or whose first line has no pipe, is saved as a parse failure carrying the
\* text.
C7_FewLinesOrNoPipe ==
    (Saved /\ NonEmptyReply
       /\ (Len(ReplyLinesOf) < 2 \/ ~HasPipe(ReplyLinesOf[1]))) =>
        /\ SavedDetails # {}
        /\ \A df \in SavedDetails : IsParseFailure(df, ReplyText)

\* C7 amended: a non-empty reply whose first line (of the trimmed text) has no
\* pipe is saved as a parse failure carrying the trimmed text, whatever the
\* number of its lines.
C7_NoPipeIsParseFailure ==
    (Saved /\ NonEmptyReply /\ ~HasPipe(ReplyLinesOf[1])) =>
        /\ SavedDetails # {}
        /\ \A df \in SavedDetails : IsParseFailure(df, ReplyText)

\* a reply of several lines without a pipe in the first, saved as a failure
C7_Witness ==
    /\ Saved /\ NonEmptyReply
    /\ Len(ReplyLinesOf) >= 2
    /\ ~HasPipe(ReplyLinesOf[1])
    /\ ReplyText # comparison_result
    /\ \E df \in SavedDetails : IsParseFailure(df, ReplyText)

\* a frame of one placeholder row
IsPlaceholder(df) ==
    /\ Len(df.rows) = 1
    /\ \A j \in 1..Len(df.rows[1]) :
          df.rows[1][j] \in {<<"wu cha yi">>, <<"no significant difference">>}

\* C9: the placeholder "no differences" row is saved only for a reply of one
\* line; a reply with further lines whose second line is not a separator row
\* is saved as a parse failure carrying the text.
C9_HeaderOnlyMeansOneLine ==
    (Saved /\ NonEmptyReply) =>
        /\ \A df \in SavedDetails : IsPlaceholder(df) => Len(ReplyLinesOf) = 1
        /\ (Len(ReplyLinesOf) >= 2 /\ ~HasDashes(ReplyLinesOf[2])) =>
              \A df \in SavedDetails : IsParseFailure(df, ReplyText)

\* C10: in a per-pair report no worksheet receives the outcomes of two
\* different common sheets.
C10_OneWorksheetPerSheet ==
    \A a, b \in 1..Len(pair_writer) :
        pair_writer[a].sheet_name = pair_writer[b].sheet_name =>
            pair_writer[a].from = pair_writer[b].from

\* C8: the overview rows of a produced report are the pairs of the eligible
\* files taken in sorted order, (A,B), (A,C), (B,C), whatever the order of the
\* directory listing.
C8_RowsInSortedOrder ==
    ReportProduced =>
        LET sorted == combinations(Sorted(Eligible))
        IN  /\ Len(overview_data) = Len(sorted)
            /\ \A j \in 1..Len(sorted) :
                  /\ overview_data[j].file1 = sorted[j][1]
                  /\ overview_data[j].file2 = sorted[j][2]

====
